---- MODULE Spec2Model ----
(***************************************************************************)
(* Model of run.py, the MRIQC to NIDM converter BIDS App.                  *)
(*                                                                         *)
(* Strings are TLA+ strings; Len, \o and SubSeq act on them character by   *)
(* character.  A Python dict is a sequence of <<key, value>> pairs with    *)
(* distinct keys, in insertion order.  A pathlib.Path is a record          *)
(* [root, names]: root is "/" or "", names the remaining components.       *)
(***************************************************************************)
EXTENDS Integers, Sequences, FiniteSets, TLC

VARIABLES
    \* ---- generate_source_url called on its own
    u_path,        \* the json_file argument (a string)
    u_exists,      \* whether a file exists at that path
    u_res,         \* result of the call: [ok, val]; ok = FALSE is a raise
    u_pc,
    \* ---- convert_json_to_csv called on its own
    c_file,        \* the json_file argument (a string)
    c_content,     \* what is stored in that file
    c_res,         \* [ok, cols, vals]: return value and the CSV written
    c_pc,
    \* ---- main
    args,          \* parsed command line: [mriqc_dir, output_dir, participant_label]
    root,          \* entries of mriqc_dir: name -> entry
    blocked,       \* labels whose <output_dir>/sub-<id> cannot be a directory
    pc,            \* position in main / process_subject
    subjects,      \* the resolved subject list
    idx,           \* index of the subject being processed
    success,       \* main's success flag
    exit_status,   \* value returned by main (-1 while running)
    calls,         \* process_subject calls made so far: <<subject_id, result>>
    pending,       \* json files of the current anat glob not yet visited
    cur,           \* json file name of the current loop iteration
    dirs,          \* directories created under output_dir by process_subject
    files,         \* files written under output_dir: path -> [kind, cols, vals]
    log,           \* logger.error calls made so far: a set of [msg, what]
    outcome,       \* json files visited by the current process_subject call
    cmds           \* csv2nidm runs of the current call: csv path -> how many

vars == <<u_path, u_exists, u_res, u_pc, c_file, c_content, c_res, c_pc,
          args, root, blocked, pc, subjects, idx, success, exit_status,
          calls, pending, cur, dirs, files, log, outcome, cmds>>

u_vars == <<u_path, u_exists, u_res, u_pc>>
c_vars == <<c_file, c_content, c_res, c_pc>>
m_vars == <<args, root, blocked, pc, subjects, idx, success, exit_status,
            calls, pending, cur, dirs, files, log, outcome, cmds>>

(***************************************************************************)
(* Bounds                                                                  *)
(***************************************************************************)
MaxDepth == 4      \* components of a path handed to generate_source_url
MaxKeys == 3       \* keys of a metric record handed to convert_json_to_csv
MaxFiles == 2      \* *.json entries of one anat directory

(***************************************************************************)
(* Strings                                                                 *)
(***************************************************************************)
CharAt(s, i) == SubSeq(s, i, i)

StartsWith(s, p) == Len(s) >= Len(p) /\ SubSeq(s, 1, Len(p)) = p

\* s.rfind(ch): the last position of ch in s, 0 when there is none
RFind(s, ch) ==
    LET P == {i \in 1..Len(s) : CharAt(s, i) = ch}
    IN IF P = {} THEN 0 ELSE CHOOSE i \in P : \A j \in P : j <= i

IsSpace(ch) == ch \in {" ", "\t", "\n"}

\* the k-th smallest element of a set of positions
Nth(P, k) == CHOOSE i \in P : Cardinality({j \in P : j < i}) = k - 1

\* str.split() with no argument: the maximal runs of non-space characters
Split(s) ==
    LET Starts == {i \in 1..Len(s) :
                     ~IsSpace(CharAt(s, i)) /\ (i = 1 \/ IsSpace(CharAt(s, i - 1)))}
        Ends   == {i \in 1..Len(s) :
                     ~IsSpace(CharAt(s, i)) /\ (i = Len(s) \/ IsSpace(CharAt(s, i + 1)))}
    IN [k \in 1..Cardinality(Starts) |-> SubSeq(s, Nth(Starts, k), Nth(Ends, k))]

\* s.split("/"): the pieces between consecutive slashes, empty ones included
SplitSlash(s) ==
    LET P == {i \in 1..Len(s) : CharAt(s, i) = "/"}
        n == Cardinality(P)
        At(k) == IF k = 0 THEN 0 ELSE IF k = n + 1 THEN Len(s) + 1 ELSE Nth(P, k)
    IN [k \in 1..(n + 1) |-> SubSeq(s, At(k - 1) + 1, At(k) - 1)]

RECURSIVE JoinSlash(_)
JoinSlash(ns) ==
    IF ns = <<>> THEN ""
    ELSE IF Len(ns) = 1 THEN ns[1]
    ELSE ns[1] \o "/" \o JoinSlash(Tail(ns))

SelectSeqNonDot(ns) == SelectSeq(ns, LAMBDA n : n # "" /\ n # ".")

(***************************************************************************)
(* pathlib                                                                 *)
(***************************************************************************)
\* Path(s)
PathOf(s) ==
    [root  |-> IF StartsWith(s, "/") THEN "/" ELSE "",
     names |-> SelectSeqNonDot(SplitSlash(s))]

\* str(p)
PathStr(p) ==
    IF p.root = "" /\ p.names = <<>> THEN "." ELSE p.root \o JoinSlash(p.names)

\* p.parts
PathParts(p) == (IF p.root = "" THEN <<>> ELSE <<p.root>>) \o p.names

\* p.parent
PathParent(p) ==
    IF p.names = <<>> THEN p
    ELSE [root |-> p.root, names |-> SubSeq(p.names, 1, Len(p.names) - 1)]

\* p.name
PathName(p) == IF p.names = <<>> THEN "" ELSE p.names[Len(p.names)]

\* p.stem
PathStem(p) ==
    LET name == PathName(p)
        i    == RFind(name, ".")
    IN IF 1 < i /\ i < Len(name) THEN SubSeq(name, 1, i - 1) ELSE name

\* p / s
PathJoin(p, s) ==
    LET q == PathOf(s)
    IN IF q.root # "" THEN q ELSE [root |-> p.root, names |-> p.names \o q.names]

(***************************************************************************)
(* dict                                                                    *)
(***************************************************************************)
Scalar(s) == [kind |-> "scalar", s |-> s, d |-> <<>>, n |-> 1]
DictV(d)  == [kind |-> "dict", s |-> "", d |-> d, n |-> 1]
ListV(n)  == [kind |-> "list", s |-> "e", d |-> <<>>, n |-> n]

Keys(d) == [i \in 1..Len(d) |-> d[i][1]]

HasKey(d, k) == \E i \in 1..Len(d) : d[i][1] = k

\* d.get(k, default)
DictGet(d, k, default) ==
    IF HasKey(d, k) THEN d[CHOOSE i \in 1..Len(d) : d[i][1] = k][2] ELSE default

\* d.pop(k, None)
DictPop(d, k) == SelectSeq(d, LAMBDA kv : kv[1] # k)

\* d[k] = v
DictSet(d, k, v) ==
    IF HasKey(d, k)
    THEN [i \in 1..Len(d) |-> IF d[i][1] = k THEN <<k, v>> ELSE d[i]]
    ELSE Append(d, <<k, v>>)

RECURSIVE DictUpdate(_, _)
\* d.update(e)
DictUpdate(d, e) ==
    IF e = <<>> THEN d ELSE DictUpdate(DictSet(d, e[1][1], e[1][2]), Tail(e))

\* list.remove(x): drops the first occurrence
ListRemove(l, x) ==
    LET P == {i \in 1..Len(l) : l[i] = x}
        f == CHOOSE i \in P : \A j \in P : i <= j
    IN SubSeq(l, 1, f - 1) \o SubSeq(l, f + 1, Len(l))

(***************************************************************************)
(* run.py: pure functions                                                  *)
(***************************************************************************)
RECURSIVE remove_keys(_, _)
\* pops each key of keys_to_remove in turn; an absent key is a no-op
remove_keys(my_dict, keys_to_remove) ==
    IF keys_to_remove = <<>> THEN my_dict
    ELSE remove_keys(DictPop(my_dict, Head(keys_to_remove)), Tail(keys_to_remove))

\* extract_metadata reading the subject from the record, not from bids_meta
extract_metadata_top(data) ==
    IF HasKey(data, "bids_meta")
    THEN LET bids_meta == DictGet(data, "bids_meta", Scalar(""))
         IN IF bids_meta.kind # "dict" THEN [ok |-> FALSE, md |-> <<>>]
            ELSE [ok |-> TRUE,
                  md |-> << <<"subject_id", DictGet(data, "subject_id", Scalar(""))>>,
                            <<"modality", DictGet(bids_meta.d, "modality", Scalar(""))>>,
                            <<"datatype", DictGet(bids_meta.d, "datatype", Scalar(""))>>,
                            <<"suffix", DictGet(bids_meta.d, "suffix", Scalar(""))>> >>]
    ELSE [ok |-> TRUE, md |-> <<>>]

\* data is a dict; the result is [ok, md], ok = FALSE when .get is called on
\* a bids_meta value that is not a dict
extract_metadata(data) ==
    IF HasKey(data, "bids_meta")
    THEN LET bids_meta == DictGet(data, "bids_meta", Scalar(""))
         IN IF bids_meta.kind # "dict" THEN [ok |-> FALSE, md |-> <<>>]
            ELSE [ok |-> TRUE,
                  md |-> << <<"subject_id", DictGet(bids_meta.d, "subject", Scalar(""))>>,
                            <<"modality", DictGet(bids_meta.d, "modality", Scalar(""))>>,
                            <<"datatype", DictGet(bids_meta.d, "datatype", Scalar(""))>>,
                            <<"suffix", DictGet(bids_meta.d, "suffix", Scalar(""))>> >>]
    ELSE [ok |-> TRUE, md |-> <<>>]

\* generate_source_url with the html file placed next to the json file
generate_source_url_parent(json_file) ==
    LET path       == PathOf(json_file)
        parent_dir == PathParent(path)
        parts      == PathParts(path)
    IN IF Len(parts) < 3 THEN [ok |-> FALSE, val |-> ""]
       ELSE LET subject_id == parts[Len(parts) - 2]
                html_file  == subject_id \o "_" \o PathStem(path) \o ".html"
            IN [ok |-> TRUE, val |-> PathStr(PathJoin(parent_dir, html_file))]

\* the result is [ok, val]; ok = FALSE is the IndexError of path.parts[-3]
generate_source_url(json_file) ==
    LET path       == PathOf(json_file)
        parent_dir == PathParent(PathParent(path))
        parts      == PathParts(path)
    IN IF Len(parts) < 3 THEN [ok |-> FALSE, val |-> ""]
       ELSE LET subject_id == parts[Len(parts) - 2]
                html_file  == subject_id \o "_" \o PathStem(path) \o ".html"
            IN [ok |-> TRUE, val |-> PathStr(PathJoin(parent_dir, html_file))]

\* keys_to_drop with the last geometry key forgotten
keys_to_drop_short ==
    <<"bids_meta", "provenance", "qi_1", "qi_2",
      "size_x", "size_y", "size_z",
      "spacing_x", "spacing_y">>

keys_to_drop ==
    <<"bids_meta", "provenance", "qi_1", "qi_2",
      "size_x", "size_y", "size_z",
      "spacing_x", "spacing_y", "spacing_z">>

\* pd.DataFrame(d, index=[0]) raises when a value is a list whose length is not 1
FrameOk(d) == \A i \in 1..Len(d) : d[i][2].kind = "list" => d[i][2].n = 1

\* the text to_csv writes for one cell; a dict value aligns to no row and is empty
Cell(v) == IF v.kind = "dict" THEN "" ELSE v.s

ConvertFailed == [ok |-> FALSE, cols |-> <<>>, vals |-> <<>>]

\* content is what json_file holds: [kind |-> "malformed"] makes json.load
\* raise, [kind |-> "json", top |-> v] makes it return v.
\* The result is [ok, cols, vals]: the return value and, when ok, the header
\* line and the data line of the CSV written.
convert_json_to_csv(json_file, content) ==
    IF content.kind # "json" THEN ConvertFailed
    ELSE IF content.top.kind # "dict" THEN ConvertFailed
    ELSE LET data     == content.top.d
             metadata == extract_metadata(data)
         IN IF ~metadata.ok THEN ConvertFailed
            ELSE LET updated_data == remove_keys(data, keys_to_drop)
                     url          == generate_source_url(json_file)
                 IN IF ~url.ok THEN ConvertFailed
                    ELSE LET row == DictUpdate(updated_data,
                                      << <<"subject_id", DictGet(metadata.md, "subject_id", Scalar(""))>>,
                                         <<"ses", Scalar("")>>,
                                         <<"task", Scalar("")>>,
                                         <<"run", Scalar("")>>,
                                         <<"source_url", Scalar(url.val)>> >>)
                         IN IF ~FrameOk(row) THEN ConvertFailed
                            ELSE LET cols == ListRemove(ListRemove(ListRemove(ListRemove(ListRemove(
                                                 Keys(row), "subject_id"), "ses"), "task"), "run"), "source_url")
                                     new_cols == <<"subject_id", "ses", "task", "run">> \o cols \o <<"source_url">>
                                 IN [ok   |-> TRUE,
                                     cols |-> new_cols,
                                     vals |-> [i \in 1..Len(new_cols) |->
                                                 Cell(DictGet(row, new_cols[i], Scalar("")))]]

(***************************************************************************)
(* Idle values of the three groups of variables                            *)
(***************************************************************************)
NoPath == [root |-> "", names |-> <<>>]
NoContent == [kind |-> "malformed", top |-> Scalar("")]
NoArgs == [mriqc_dir |-> "", output_dir |-> "", participant_label |-> [given |-> FALSE, s |-> ""]]

IdleU ==
    /\ u_path = NoPath /\ u_exists = FALSE
    /\ u_res = [ok |-> FALSE, val |-> ""] /\ u_pc = "idle"

IdleC ==
    /\ c_file = "" /\ c_content = NoContent
    /\ c_res = ConvertFailed /\ c_pc = "idle"

IdleM ==
    /\ args = NoArgs /\ root = <<>> /\ blocked = {}
    /\ pc = "idle" /\ subjects = <<>> /\ idx = 0 /\ success = TRUE
    /\ exit_status = -1 /\ calls = <<>> /\ pending = {} /\ cur = ""
    /\ dirs = {} /\ files = <<>> /\ log = {} /\ outcome = <<>> /\ cmds = <<>>

SeqsUpTo(S, n) == UNION {[1..k -> S] : k \in 0..n}

(***************************************************************************)
(* SpecUrl: generate_source_url applied to a path                          *)
(***************************************************************************)
UrlNames ==
    {"out", "sub-0051456", "anat", "sub-0051456_task-rest_bold.json",
     "a.b.json", ".json", "x.", "."}

\* the text of a path written component by component
PathText(p) == p.root \o JoinSlash(p.names)

InitUrl ==
    /\ u_path \in [root : {"", "/"}, names : SeqsUpTo(UrlNames, MaxDepth)]
    /\ u_exists \in BOOLEAN
    /\ u_res = [ok |-> FALSE, val |-> ""]
    /\ u_pc = "call"
    /\ IdleC /\ IdleM

CallGenerateSourceUrl ==
    /\ u_pc = "call"
    /\ u_res' = generate_source_url(PathText(u_path))
    /\ u_pc' = "done"
    /\ UNCHANGED <<u_path, u_exists, c_vars, m_vars>>

NextUrl == CallGenerateSourceUrl

SpecUrl == InitUrl /\ [][NextUrl]_vars

(***************************************************************************)
(* C7.  generate_source_url depends on the text of the path alone: for a   *)
(* path of at least three components the result is the grandparent         *)
(* directory joined with <third-from-last component>_<stem>.html, whether  *)
(* or not a file exists there.  When the third-from-last component is the  *)
(* root "/", the file name "/_<stem>.html" is itself absolute and joining  *)
(* leaves it as it is.                                                     *)
(***************************************************************************)
ExamplePath == "/out/sub-0051456/anat/sub-0051456_task-rest_bold.json"
ExampleUrl == "/out/sub-0051456/sub-0051456_sub-0051456_task-rest_bold.html"

\* the stems of the file names of UrlNames, written out
StemOfName(name) ==
    CASE name = "sub-0051456_task-rest_bold.json" -> "sub-0051456_task-rest_bold"
      [] name = "a.b.json" -> "a.b"
      [] name = ".json" -> ".json"
      [] name = "x." -> "x."
      [] OTHER -> name

\* the components of the path that count: "." names nothing
UrlComponents(p) ==
    (IF p.root = "/" THEN <<"/">> ELSE <<>>) \o SelectSeq(p.names, LAMBDA n : n # ".")

UrlExpected(p) ==
    LET parts == UrlComponents(p)
        n     == Len(parts)
        file  == parts[n - 2] \o "_" \o StemOfName(parts[n]) \o ".html"
        gp    == SubSeq(parts, 1, n - 2)
    IN IF gp = <<"/">> THEN file
       ELSE IF gp[1] = "/" THEN "/" \o JoinSlash(Tail(gp)) \o "/" \o file
       ELSE JoinSlash(gp) \o "/" \o file

SourceUrlIsFunctionOfPath ==
    u_pc = "done" =>
        /\ Len(UrlComponents(u_path)) >= 3 =>
              u_res.ok /\ u_res.val = UrlExpected(u_path)
        /\ PathText(u_path) = ExamplePath => u_res.val = ExampleUrl

SourceUrlExampleReached ==
    /\ u_pc = "done"
    /\ PathText(u_path) = ExamplePath
    /\ ~u_exists
    /\ u_res = [ok |-> TRUE, val |-> ExampleUrl]

(***************************************************************************)
(* SpecCsv: convert_json_to_csv applied to one file                        *)
(***************************************************************************)
InjectedKeys == {"subject_id", "ses", "task", "run", "source_url"}

KeyPool ==
    {"bids_meta", "provenance", "qi_1", "qi_2", "size_x", "size_y", "size_z",
     "spacing_x", "spacing_y", "spacing_z", "cjv", "snr"} \cup InjectedKeys

\* the keys whose values are varied
VariedKeys == {"bids_meta", "snr", "subject_id"}

Injective(f) == \A i, j \in DOMAIN f : f[i] = f[j] => i = j

KeySeqs == {ks \in SeqsUpTo(KeyPool, MaxKeys) : Injective(ks)}

MetaValues ==
    {DictV(<<>>),
     DictV(<< <<"subject", Scalar("0001")>> >>),
     DictV(<< <<"modality", Scalar("T1w")>>, <<"subject", Scalar("0001")>>,
              <<"session", Scalar("01")>>, <<"subject_id", Scalar("9")>> >>),
     DictV(<< <<"modality", Scalar("T1w")>>, <<"suffix", Scalar("T1w")>> >>),
     Scalar("meta")}

MetricValues == {Scalar("12.5"), ListV(1), ListV(2), DictV(<<>>)}

CsvFiles == {"/in/sub-01/anat/sub-01_T1w.json", "anat/sub-01_T1w.json"}

InputValue(k, m, v) ==
    CASE k = "bids_meta" -> m
      [] k = "snr" -> v
      [] k = "provenance" -> DictV(<< <<"md5sum", Scalar("abc")>> >>)
      [] OTHER -> Scalar("in_" \o k)

InputRecord(ks, m, v) == [i \in 1..Len(ks) |-> <<ks[i], InputValue(ks[i], m, v)>>]

InitCsv ==
    /\ \E ks \in KeySeqs :
         LET few == \A i \in 1..Len(ks) : ks[i] \in VariedKeys
         IN \E m \in (IF few THEN MetaValues ELSE {DictV(<< <<"subject", Scalar("0001")>> >>)}),
               v \in (IF few THEN MetricValues ELSE {Scalar("12.5")}),
               f \in (IF few THEN CsvFiles ELSE {"/in/sub-01/anat/sub-01_T1w.json"}),
               k \in (IF ks = <<>> THEN {"malformed", "list", "dict"} ELSE {"dict"}) :
              /\ c_file = f
              /\ c_content = CASE k = "malformed" -> NoContent
                               [] k = "list" -> [kind |-> "json", top |-> ListV(0)]
                               [] OTHER -> [kind |-> "json", top |-> DictV(InputRecord(ks, m, v))]
    /\ c_res = ConvertFailed
    /\ c_pc = "call"
    /\ IdleU /\ IdleM

CallConvertJsonToCsv ==
    /\ c_pc = "call"
    /\ c_res' = convert_json_to_csv(c_file, c_content)
    /\ c_pc' = "done"
    /\ UNCHANGED <<c_file, c_content, u_vars, m_vars>>

NextCsv == CallConvertJsonToCsv

SpecCsv == InitCsv /\ [][NextCsv]_vars

\* the keys of the record in the file, in their order in the file
InputKeys == Keys(c_content.top.d)

RemovalList ==
    {"bids_meta", "provenance", "qi_1", "qi_2", "size_x", "size_y", "size_z",
     "spacing_x", "spacing_y", "spacing_z"}

\* the CSV was written
RowWritten == c_pc = "done" /\ c_res.ok

(***************************************************************************)
(* C4 as stated: the columns are subject_id, session, task, run, then      *)
(* every input key outside the removal list in its original order, then    *)
(* source_url.                                                             *)
(***************************************************************************)
ColumnsAsClaimed ==
    RowWritten =>
        c_res.cols = <<"subject_id", "session", "task", "run">>
                       \o SelectSeq(InputKeys, LAMBDA k : k \notin RemovalList)
                       \o <<"source_url">>

(***************************************************************************)
(* C4 amended: the columns are subject_id, ses, task, run, then every      *)
(* input key that is neither in the removal list nor one of the five       *)
(* injected names, in its original order, then source_url; no removed key  *)
(* is a column, and a record with no such key yields exactly the five      *)
(* columns subject_id, ses, task, run, source_url.                         *)
(***************************************************************************)
ColumnsInOrder ==
    RowWritten =>
        LET kept == SelectSeq(InputKeys, LAMBDA k : k \notin RemovalList \cup InjectedKeys)
        IN /\ c_res.cols = <<"subject_id", "ses", "task", "run">> \o kept \o <<"source_url">>
           /\ \A i \in 1..Len(c_res.cols) : c_res.cols[i] \notin RemovalList
           /\ kept = <<>> => c_res.cols = <<"subject_id", "ses", "task", "run", "source_url">>
           /\ Len(c_res.vals) = Len(c_res.cols)

\* a record with a metric, a removed key and an injected name
ColumnsInOrderReached ==
    /\ RowWritten
    /\ InputKeys = <<"snr", "spacing_z", "ses">>
    /\ c_res.cols = <<"subject_id", "ses", "task", "run", "snr", "source_url">>

(***************************************************************************)
(* C8.  The subject_id value of the row is the subject sub-field of        *)
(* bids_meta when present, and the empty string when the sub-field or the  *)
(* whole block is absent; other sub-fields of bids_meta and a top-level    *)
(* subject_id key do not change it.                                        *)
(***************************************************************************)
CellOf(col) == c_res.vals[CHOOSE i \in 1..Len(c_res.cols) : c_res.cols[i] = col]

SubjectIdFromMeta ==
    RowWritten =>
        LET data == c_content.top.d
            has  == \E i \in 1..Len(data) :
                       /\ data[i][1] = "bids_meta"
                       /\ \E j \in 1..Len(data[i][2].d) : data[i][2].d[j][1] = "subject"
        IN /\ \E i \in 1..Len(c_res.cols) : c_res.cols[i] = "subject_id"
           /\ CellOf("subject_id") =
                 IF has
                 THEN LET i == CHOOSE i \in 1..Len(data) : data[i][1] = "bids_meta"
                          j == CHOOSE j \in 1..Len(data[i][2].d) : data[i][2].d[j][1] = "subject"
                      IN data[i][2].d[j][2].s
                 ELSE ""

\* a top-level subject_id and a bids_meta with extra sub-fields
SubjectIdFromMetaReached ==
    /\ RowWritten
    /\ HasKey(c_content.top.d, "subject_id")
    /\ HasKey(c_content.top.d, "bids_meta")
    /\ HasKey(DictGet(c_content.top.d, "bids_meta", Scalar("")).d, "session")
    /\ CellOf("subject_id") = "0001"

(***************************************************************************)
(* Spec: main, with process_subject inlined at its call                    *)
(***************************************************************************)
\* names a *.json entry of an anat directory can have; the first MaxFiles are used
JsonNameList == <<"sub-01_T1w.json", "sub-01_T2w.json", "x.y.json", "z.json">>
JsonNames == {JsonNameList[i] : i \in 1..MaxFiles}

GoodRecord ==
    DictV(<< <<"bids_meta", DictV(<< <<"modality", Scalar("T1w")>>,
                                     <<"subject", Scalar("01")>> >>)>>,
             <<"cjv", Scalar("0.5")>>,
             <<"qi_1", Scalar("0.0")>>,
             <<"provenance", DictV(<< <<"md5sum", Scalar("abc")>> >>)>>,
             <<"snr", Scalar("12.5")>> >>)

\* a record whose snr is a two-element list: pd.DataFrame raises on it
RaggedRecord ==
    DictV(<< <<"bids_meta", DictV(<< <<"subject", Scalar("01")>> >>)>>,
             <<"snr", ListV(2)>> >>)

FileContents ==
    {NoContent, [kind |-> "json", top |-> RaggedRecord], [kind |-> "json", top |-> GoodRecord]}

Absent == [kind |-> "absent", anat |-> FALSE, json |-> <<>>]
PlainFile == [kind |-> "file", anat |-> FALSE, json |-> <<>>]
BareDir == [kind |-> "dir", anat |-> FALSE, json |-> <<>>]

AnatConfigs == UNION {[S -> FileContents] : S \in SUBSET JsonNames}

SubjectEntries ==
    {Absent, PlainFile, BareDir} \cup {[kind |-> "dir", anat |-> TRUE, json |-> j] : j \in AnatConfigs}

ParticipantLabels ==
    {[given |-> FALSE, s |-> ""]} \cup
    {[given |-> TRUE, s |-> l] : l \in {"", " ", "01", " 02\t01 ", "03 01", "01 01"}}

OutLabels == {"01"}

Init ==
    /\ args \in [mriqc_dir : {"/in"}, output_dir : {"/out"}, participant_label : ParticipantLabels]
    /\ \E d1 \in SubjectEntries, d2 \in SubjectEntries, h \in {Absent, PlainFile} :
         /\ Cardinality(DOMAIN d1.json) + Cardinality(DOMAIN d2.json) <= MaxFiles
         /\ root = [n \in {"sub-01", "sub-02", "sub-01_T1w.html", "dataset_description.json"} |->
                      CASE n = "sub-01" -> d1
                        [] n = "sub-02" -> d2
                        [] n = "sub-01_T1w.html" -> h
                        [] OTHER -> PlainFile]
    /\ blocked \in SUBSET OutLabels
    /\ pc = "start" /\ subjects = <<>> /\ idx = 0 /\ success = TRUE
    /\ exit_status = -1 /\ calls = <<>> /\ pending = {} /\ cur = ""
    /\ dirs = {} /\ files = <<>> /\ log = {} /\ outcome = <<>> /\ cmds = <<>>
    /\ IdleU /\ IdleC

\* the entries of mriqc_dir
Entries == {n \in DOMAIN root : root[n].kind # "absent"}

\* (mriqc_dir / name).exists()
Exists(name) == name \in Entries

\* mriqc_dir.glob('sub-*'): the names of the matching entries
GlobSub == {n \in Entries : StartsWith(n, "sub-")}

Perms(S) == {f \in [1..Cardinality(S) -> S] : Injective(f)}

subject_dir(subject_id) == PathJoin(PathOf(args.mriqc_dir), "sub-" \o subject_id)

SubjectName(subject_id) == PathName(subject_dir(subject_id))

anat_exists(subject_id) ==
    LET n == SubjectName(subject_id)
    IN Exists(n) /\ root[n].kind = "dir" /\ root[n].anat

\* anat_dir.glob("*.json")
anat_glob(subject_id) == DOMAIN root[SubjectName(subject_id)].json

json_path(subject_id, name) == PathJoin(PathJoin(subject_dir(subject_id), "anat"), name)

\* nidm_dir with the last directory level left out
nidm_dir_flat(subject_id) ==
    PathJoin(PathOf(args.output_dir), "sub-" \o subject_id)

nidm_dir(subject_id) ==
    PathJoin(PathJoin(PathOf(args.output_dir), "sub-" \o subject_id), "nidm")

csv_file(subject_id, name) ==
    PathStr(PathJoin(nidm_dir(subject_id), PathStem(PathOf(name)) \o ".csv"))

ttl_file(subject_id, name) ==
    PathStr(PathJoin(nidm_dir(subject_id), PathStem(PathOf(name)) \o ".ttl"))

RECURSIVE Ancestors(_)
\* the directories mkdir(parents=True) makes sure exist
Ancestors(p) ==
    IF p.names = <<>> THEN {} ELSE {PathStr(p)} \cup Ancestors(PathParent(p))

\* the list comprehension over the glob, in the order the glob yields
StripPrefix(order) == [i \in 1..Len(order) |-> SubSeq(order[i], 5, Len(order[i]))]

\* lines 164-189: parse arguments, set up logging, resolve the subjects
MainStart ==
    /\ pc = "start"
    /\ dirs' = Ancestors(PathJoin(PathOf(args.output_dir), "logs"))
    /\ \E order \in Perms(GlobSub) :
         subjects' = IF args.participant_label.given /\ args.participant_label.s # ""
                     THEN Split(args.participant_label.s)
                     ELSE StripPrefix(order)
    /\ IF subjects' = <<>>
       THEN /\ log' = log \cup {[msg |-> "No subjects found to process", what |-> ""]}
            /\ exit_status' = 1
            /\ pc' = "done"
            /\ UNCHANGED <<idx, success>>
       ELSE /\ success' = TRUE
            /\ idx' = 1
            /\ pc' = "loop"
            /\ UNCHANGED <<log, exit_status>>
    /\ UNCHANGED <<args, root, blocked, calls, pending, cur, files, outcome, cmds, u_vars, c_vars>>

\* process_subject returning only when the subject succeeded, stopping the loop otherwise
ReturnOrBreak(subject_id, result) ==
    /\ calls' = Append(calls, <<subject_id, result>>)
    /\ success' = IF result THEN success ELSE FALSE
    /\ idx' = IF result THEN idx + 1 ELSE Len(subjects) + 1
    /\ pc' = "loop"

\* main's flag following the last subject only
ReturnLast(subject_id, result) ==
    /\ calls' = Append(calls, <<subject_id, result>>)
    /\ success' = result
    /\ idx' = idx + 1
    /\ pc' = "loop"

\* process_subject returns result to main's loop (lines 192-193)
Return(subject_id, result) ==
    /\ calls' = Append(calls, <<subject_id, result>>)
    /\ success' = IF result THEN success ELSE FALSE
    /\ idx' = idx + 1
    /\ pc' = "loop"

\* lines 116-119: the subject directory does not exist
SubjectNotFound ==
    /\ pc = "loop" /\ idx <= Len(subjects)
    /\ ~Exists(SubjectName(subjects[idx]))
    /\ log' = log \cup {[msg |-> "Subject directory not found", what |-> PathStr(subject_dir(subjects[idx]))]}
    /\ outcome' = <<>> /\ cmds' = <<>>
    /\ Return(subjects[idx], FALSE)
    /\ UNCHANGED <<args, root, blocked, subjects, exit_status, pending, cur, dirs, files, u_vars, c_vars>>

\* SubjectNoAnat reporting the missing anat directory as a failure
SubjectNoAnatFails ==
    /\ pc = "loop" /\ idx <= Len(subjects)
    /\ Exists(SubjectName(subjects[idx]))
    /\ ~anat_exists(subjects[idx])
    /\ outcome' = <<>> /\ cmds' = <<>>
    /\ Return(subjects[idx], FALSE)
    /\ UNCHANGED <<args, root, blocked, subjects, exit_status, pending, cur, dirs, files, log, u_vars, c_vars>>

\* lines 116-123, 144: the subject directory exists, anat does not
SubjectNoAnat ==
    /\ pc = "loop" /\ idx <= Len(subjects)
    /\ Exists(SubjectName(subjects[idx]))
    /\ ~anat_exists(subjects[idx])
    /\ outcome' = <<>> /\ cmds' = <<>>
    /\ Return(subjects[idx], TRUE)
    /\ UNCHANGED <<args, root, blocked, subjects, exit_status, pending, cur, dirs, files, log, u_vars, c_vars>>

\* lines 116-124: anat exists, the glob of its json files starts
SubjectAnat ==
    /\ pc = "loop" /\ idx <= Len(subjects)
    /\ anat_exists(subjects[idx])
    /\ pending' = anat_glob(subjects[idx])
    /\ outcome' = <<>> /\ cmds' = <<>>
    /\ pc' = "glob"
    /\ UNCHANGED <<args, root, blocked, subjects, idx, success, exit_status, calls, cur, dirs, files, log, u_vars, c_vars>>

\* lines 124-127, 146-148: the glob yields a file and the output directory is made
NextFile ==
    /\ pc = "glob"
    /\ \E name \in pending :
         /\ pending' = pending \ {name}
         /\ IF subjects[idx] \in blocked
            THEN /\ log' = log \cup {[msg |-> "Error processing subject", what |-> subjects[idx]]}
                 /\ Return(subjects[idx], FALSE)
                 /\ UNCHANGED <<cur, dirs>>
            ELSE /\ dirs' = dirs \cup Ancestors(nidm_dir(subjects[idx]))
                 /\ cur' = name
                 /\ pc' = "convert"
                 /\ UNCHANGED <<log, calls, success, idx>>
    /\ UNCHANGED <<args, root, blocked, subjects, exit_status, files, outcome, cmds, u_vars, c_vars>>

\* ConvertFile without the continue of line 132
ConvertFileNoSkip ==
    /\ pc = "convert"
    /\ LET sid == subjects[idx]
           jf  == PathStr(json_path(sid, cur))
           res == convert_json_to_csv(jf, root[SubjectName(sid)].json[cur])
       IN IF res.ok
          THEN /\ files' = (csv_file(sid, cur) :> [kind |-> "csv", cols |-> res.cols, vals |-> res.vals]) @@ files
               /\ pc' = "cmd"
               /\ UNCHANGED <<log, outcome>>
          ELSE /\ log' = log \cup {[msg |-> "Error converting to CSV", what |-> jf]}
               /\ outcome' = (cur :> "skip") @@ outcome
               /\ pc' = "cmd"
               /\ UNCHANGED files
    /\ UNCHANGED <<args, root, blocked, subjects, idx, success, exit_status, calls, pending, cur, dirs, cmds, u_vars, c_vars>>

\* lines 129-132: transform the file, skip it when the transform fails
ConvertFile ==
    /\ pc = "convert"
    /\ LET sid == subjects[idx]
           jf  == PathStr(json_path(sid, cur))
           res == convert_json_to_csv(jf, root[SubjectName(sid)].json[cur])
       IN IF res.ok
          THEN /\ files' = (csv_file(sid, cur) :> [kind |-> "csv", cols |-> res.cols, vals |-> res.vals]) @@ files
               /\ pc' = "cmd"
               /\ UNCHANGED <<log, outcome>>
          ELSE /\ log' = log \cup {[msg |-> "Error converting to CSV", what |-> jf]}
               /\ outcome' = (cur :> "skip") @@ outcome
               /\ pc' = "glob"
               /\ UNCHANGED files
    /\ UNCHANGED <<args, root, blocked, subjects, idx, success, exit_status, calls, pending, cur, dirs, cmds, u_vars, c_vars>>

Count(bag, k) == IF k \in DOMAIN bag THEN bag[k] ELSE 0

\* RunConverter giving up on the subject when csv2nidm fails
RunConverterAborts ==
    /\ pc = "cmd"
    /\ LET sid == subjects[idx]
           csv == csv_file(sid, cur)
       IN /\ cmds' = (csv :> Count(cmds, csv) + 1) @@ cmds
          /\ \E status \in {0, 256} :
               IF status # 0
               THEN /\ log' = log \cup {[msg |-> "Failed to convert to NIDM", what |-> csv]}
                    /\ outcome' = (cur :> "cmdfail") @@ outcome
                    /\ Return(sid, FALSE)
                    /\ UNCHANGED files
               ELSE /\ files' = (ttl_file(sid, cur) :> [kind |-> "ttl", cols |-> <<>>, vals |-> <<>>]) @@ files
                    /\ outcome' = (cur :> "ok") @@ outcome
                    /\ pc' = "glob"
                    /\ UNCHANGED <<log, calls, success, idx>>
    /\ UNCHANGED <<args, root, blocked, subjects, exit_status, pending, cur, dirs, u_vars, c_vars>>

\* lines 134-142: run csv2nidm on the CSV; its exit status is the converter's choice
RunConverter ==
    /\ pc = "cmd"
    /\ LET sid == subjects[idx]
           csv == csv_file(sid, cur)
       IN /\ cmds' = (csv :> Count(cmds, csv) + 1) @@ cmds
          /\ \E status \in {0, 256} :
               IF status # 0
               THEN /\ log' = log \cup {[msg |-> "Failed to convert to NIDM", what |-> csv]}
                    /\ outcome' = (cur :> "cmdfail") @@ outcome
                    /\ UNCHANGED files
               ELSE /\ files' = (ttl_file(sid, cur) :> [kind |-> "ttl", cols |-> <<>>, vals |-> <<>>]) @@ files
                    /\ outcome' = (cur :> "ok") @@ outcome
                    /\ UNCHANGED log
          /\ pc' = "glob"
    /\ UNCHANGED <<args, root, blocked, subjects, idx, success, exit_status, calls, pending, cur, dirs, u_vars, c_vars>>

\* line 144: the glob is exhausted
SubjectDone ==
    /\ pc = "glob"
    /\ pending = {}
    /\ Return(subjects[idx], TRUE)
    /\ UNCHANGED <<args, root, blocked, subjects, exit_status, pending, cur, dirs, files, log, outcome, cmds, u_vars, c_vars>>

\* lines 195-200
MainFinish ==
    /\ pc = "loop" /\ idx > Len(subjects)
    /\ IF success
       THEN exit_status' = 0 /\ UNCHANGED log
       ELSE /\ exit_status' = 1
            /\ log' = log \cup {[msg |-> "Some subjects failed to process", what |-> ""]}
    /\ pc' = "done"
    /\ UNCHANGED <<args, root, blocked, subjects, idx, success, calls, pending, cur, dirs, files, outcome, cmds, u_vars, c_vars>>

Next ==
    \/ MainStart
    \/ SubjectNotFound
    \/ SubjectNoAnat
    \/ SubjectAnat
    \/ NextFile
    \/ ConvertFile
    \/ RunConverter
    \/ SubjectDone
    \/ MainFinish

Spec == Init /\ [][Next]_vars

(***************************************************************************)
(* What the claims about main and process_subject speak of                 *)
(***************************************************************************)
\* the subject of the process_subject call that is running or ran last
CallSubject ==
    IF pc \in {"glob", "convert", "cmd"} THEN subjects[idx]
    ELSE IF Len(calls) > 0 THEN calls[Len(calls)][1] ELSE ""

\* process_subject has returned and main has not called it again
Returned == pc \in {"loop", "done"} /\ Len(calls) > 0

LastResult == calls[Len(calls)][2]

EntryOf(subject_id) ==
    IF ("sub-" \o subject_id) \in DOMAIN root THEN root["sub-" \o subject_id] ELSE Absent

AnatMissing(subject_id) == ~(EntryOf(subject_id).kind = "dir" /\ EntryOf(subject_id).anat)

\* the transform of this file fails: it does not hold a record of scalars
TransformFails(subject_id, name) ==
    EntryOf(subject_id).json[name] # [kind |-> "json", top |-> GoodRecord]

JsonStemOf(name) ==
    CASE name = "sub-01_T1w.json" -> "sub-01_T1w"
      [] name = "sub-01_T2w.json" -> "sub-01_T2w"
      [] name = "x.y.json" -> "x.y"
      [] name = "z.json" -> "z"

OutText(subject_id, level, name, ext) ==
    args.output_dir \o "/sub-" \o subject_id \o "/" \o level \o "/" \o JsonStemOf(name) \o ext

Logged(msg, what) == [msg |-> msg, what |-> what] \in log

(***************************************************************************)
(* C1.  main returns 0 exactly when the resolved subject list is not empty *)
(* and every process_subject call reported success; it returns 1 when no   *)
(* subject was resolved, with no subject processed, or when a call         *)
(* reported failure.                                                       *)
(***************************************************************************)
ExitStatusReflectsCalls ==
    /\ pc # "done" => exit_status = -1
    /\ pc = "done" =>
          /\ exit_status \in {0, 1}
          /\ exit_status = 0 <=>
                /\ Len(subjects) > 0
                /\ Len(calls) = Len(subjects)
                /\ \A i \in 1..Len(calls) : calls[i][2]
          /\ Len(subjects) = 0 => Len(calls) = 0 /\ exit_status = 1

\* a failed subject followed by a successful one
ExitStatusAfterMixedCalls ==
    /\ pc = "done"
    /\ exit_status = 1
    /\ Len(calls) = 2
    /\ ~calls[1][2]
    /\ calls[2][2]

(***************************************************************************)
(* C6.  The process_subject calls made so far are the subjects of the      *)
(* resolved list, one call per entry, in list order, whatever the earlier  *)
(* calls returned; when main returns with a non-empty list every entry     *)
(* has had its call.                                                       *)
(***************************************************************************)
EverySubjectProcessedInOrder ==
    /\ Len(calls) <= Len(subjects)
    /\ \A i \in 1..Len(calls) : calls[i][1] = subjects[i]
    /\ pc \in {"glob", "convert", "cmd"} => Len(calls) = idx - 1
    /\ pc = "done" => Len(calls) = Len(subjects)

\* the first subject failed in its except clause, the second had its files visited
SecondSubjectProcessedAfterFailure ==
    /\ pc = "done"
    /\ Len(subjects) = 2
    /\ Len(calls) = 2
    /\ ~calls[1][2]
    /\ Logged("Error processing subject", subjects[1])
    /\ DOMAIN outcome # {}

(***************************************************************************)
(* C2 as stated: a process_subject call for a subject whose anat directory *)
(* is missing returns False and leaves no output directory for the         *)
(* subject, whether sub-<id> is missing or only its anat child.            *)
(***************************************************************************)
MissingAnatAlwaysFails ==
    \A i \in 1..Len(calls) :
        AnatMissing(calls[i][1]) =>
            /\ calls[i][2] = FALSE
            /\ (args.output_dir \o "/sub-" \o calls[i][1]) \notin dirs

(***************************************************************************)
(* C2 amended: a process_subject call for a subject whose sub-<id> is      *)
(* missing returns False and logs "not found"; a call for a subject whose  *)
(* sub-<id> exists without an anat child returns True; neither creates an  *)
(* output directory or writes a file for the subject.                      *)
(***************************************************************************)
MissingAnatOutcome ==
    \A i \in 1..Len(calls) :
        AnatMissing(calls[i][1]) =>
            /\ calls[i][2] = (EntryOf(calls[i][1]).kind # "absent")
            /\ EntryOf(calls[i][1]).kind = "absent" =>
                  Logged("Subject directory not found", args.mriqc_dir \o "/sub-" \o calls[i][1])
            /\ (args.output_dir \o "/sub-" \o calls[i][1]) \notin dirs
            /\ \A p \in DOMAIN files :
                  ~StartsWith(p, args.output_dir \o "/sub-" \o calls[i][1] \o "/")

\* one call for a missing sub-<id>, one for a sub-<id> directory without anat
BothMissingCasesCalled ==
    \E i, j \in 1..Len(calls) :
        /\ EntryOf(calls[i][1]).kind = "absent" /\ ~calls[i][2]
        /\ EntryOf(calls[j][1]) = BareDir /\ calls[j][2]

(***************************************************************************)
(* C3.  In a process_subject call for a subject with an anat directory, a  *)
(* visited file whose transform fails is logged and skipped: csv2nidm is   *)
(* not run for it and neither <stem>.csv nor <stem>.ttl exists for it;     *)
(* when the call returns, every other json file of the subject has been    *)
(* visited and the call returns True.                                      *)
(***************************************************************************)
FailedTransformSkipped ==
    /\ \A name \in DOMAIN outcome :
          TransformFails(CallSubject, name) =>
              /\ outcome[name] = "skip"
              /\ Count(cmds, OutText(CallSubject, "nidm", name, ".csv")) = 0
              /\ OutText(CallSubject, "nidm", name, ".csv") \notin DOMAIN files
              /\ OutText(CallSubject, "nidm", name, ".ttl") \notin DOMAIN files
              /\ Logged("Error converting to CSV",
                        args.mriqc_dir \o "/sub-" \o CallSubject \o "/anat/" \o name)
    /\ (Returned /\ \E name \in DOMAIN outcome : TransformFails(CallSubject, name)) =>
          /\ DOMAIN outcome = DOMAIN EntryOf(CallSubject).json
          /\ LastResult = TRUE

\* a returned call that skipped one file and converted another
SkippedAndConvertedInOneCall ==
    /\ Returned
    /\ LastResult = TRUE
    /\ \E a, b \in DOMAIN outcome :
          /\ TransformFails(CallSubject, a) /\ outcome[a] = "skip"
          /\ outcome[b] = "ok"

(***************************************************************************)
(* C9.  In a process_subject call, csv2nidm is run exactly once for each   *)
(* visited file whose transform succeeded and for no other file, and the   *)
(* file's CSV is written before the run; a non-zero exit status is logged  *)
(* for the file, and when the call returns every json file has been        *)
(* visited and the call returns True.                                      *)
(***************************************************************************)
ConverterRunOncePerRow ==
    /\ \A name \in DOMAIN outcome :
          outcome[name] \in {"ok", "cmdfail"} =>
              /\ ~TransformFails(CallSubject, name)
              /\ Count(cmds, OutText(CallSubject, "nidm", name, ".csv")) = 1
              /\ OutText(CallSubject, "nidm", name, ".csv") \in DOMAIN files
              /\ outcome[name] = "ok" => OutText(CallSubject, "nidm", name, ".ttl") \in DOMAIN files
              /\ outcome[name] = "cmdfail" =>
                    Logged("Failed to convert to NIDM", OutText(CallSubject, "nidm", name, ".csv"))
    /\ \A csv \in DOMAIN cmds :
          \E name \in DOMAIN outcome :
              /\ outcome[name] \in {"ok", "cmdfail"}
              /\ csv = OutText(CallSubject, "nidm", name, ".csv")
    /\ pc = "cmd" =>
          /\ ~TransformFails(CallSubject, cur)
          /\ OutText(CallSubject, "nidm", cur, ".csv") \in DOMAIN files
          /\ Count(cmds, OutText(CallSubject, "nidm", cur, ".csv")) = 0
    /\ (Returned /\ \E name \in DOMAIN outcome : outcome[name] = "cmdfail") =>
          /\ DOMAIN outcome = DOMAIN EntryOf(CallSubject).json
          /\ LastResult = TRUE

\* a returned call in which csv2nidm failed for one file and succeeded for another
ConverterFailedAndSucceededInOneCall ==
    /\ Returned
    /\ LastResult = TRUE
    /\ \E a, b \in DOMAIN outcome : outcome[a] = "cmdfail" /\ outcome[b] = "ok"

(***************************************************************************)
(* C10 as stated: every file written is <output_dir>/sub-<id>/semantic/    *)
(* <stem>.csv or .ttl for a json file of a processed subject, and that     *)
(* semantic directory has been created.                                    *)
(***************************************************************************)
OutputUnderSemantic ==
    \A p \in DOMAIN files :
        \E i \in 1..Len(subjects) : \E name \in DOMAIN EntryOf(subjects[i]).json :
            /\ p \in {OutText(subjects[i], "semantic", name, ".csv"),
                      OutText(subjects[i], "semantic", name, ".ttl")}
            /\ (args.output_dir \o "/sub-" \o subjects[i] \o "/semantic") \in dirs

(***************************************************************************)
(* C10 amended: every file written is <output_dir>/sub-<id>/nidm/          *)
(* <stem>.csv or .ttl for a json file of a processed subject, the          *)
(* directory <output_dir>/sub-<id>/nidm having been created before; it     *)
(* exists whenever a file of the subject is about to be transformed or     *)
(* converted.                                                              *)
(***************************************************************************)
OutputUnderNidm ==
    /\ \A p \in DOMAIN files :
          \E i \in 1..Len(subjects) : \E name \in DOMAIN EntryOf(subjects[i]).json :
              /\ p \in {OutText(subjects[i], "nidm", name, ".csv"),
                        OutText(subjects[i], "nidm", name, ".ttl")}
              /\ (args.output_dir \o "/sub-" \o subjects[i] \o "/nidm") \in dirs
              /\ (args.output_dir \o "/sub-" \o subjects[i]) \in dirs
    /\ pc \in {"convert", "cmd"} =>
          (args.output_dir \o "/sub-" \o subjects[idx] \o "/nidm") \in dirs

\* both outputs of two json files of one subject are in its nidm directory
TwoFilesWrittenUnderNidm ==
    \E i \in 1..Len(subjects) : \E a, b \in DOMAIN EntryOf(subjects[i]).json :
        /\ a # b
        /\ {OutText(subjects[i], "nidm", a, ".csv"), OutText(subjects[i], "nidm", a, ".ttl"),
            OutText(subjects[i], "nidm", b, ".csv")} \subseteq DOMAIN files
        /\ (args.output_dir \o "/sub-" \o subjects[i] \o "/nidm") \in dirs

(***************************************************************************)
(* C5.  The resolved subject list is the whitespace-split participant      *)
(* label when one is supplied; otherwise it is the identifiers of the      *)
(* directories of mriqc_dir named sub-*, with the prefix stripped: an      *)
(* entry that is not a directory contributes no subject.                   *)
(***************************************************************************)
LabelWords(s) ==
    CASE s = "01" -> <<"01">>
      [] s = " 02\t01 " -> <<"02", "01">>
      [] s = "03 01" -> <<"03", "01">>
      [] s = "01 01" -> <<"01", "01">>
      [] OTHER -> <<>>

SubjectsAreLabelOrDirectories ==
    pc # "start" =>
        IF args.participant_label.given /\ args.participant_label.s # ""
        THEN subjects = LabelWords(args.participant_label.s)
        ELSE /\ {subjects[i] : i \in 1..Len(subjects)} =
                   {id \in {"01", "02", "01_T1w.html"} : EntryOf(id).kind = "dir"}
             /\ \A i, j \in 1..Len(subjects) : subjects[i] = subjects[j] => i = j

====
